---------------------------- MODULE Spec2Model ----------------------------
(***************************************************************************)
(* Buffett-Style Stock Evaluator: the per-ticker fundamentals cache        *)
(* (parquet_store.py), the remote provider with its retry loop             *)
(* (data_providers.py), the resolution of a ticker's fundamentals          *)
(* (streamlit_app.py) and the five-rule scorecard (buffett_eval/metrics.py)*)
(***************************************************************************)
EXTENDS Integers, Sequences, FiniteSets, TLC

(***************************************************************************)
(* Bounds and universes.                                                   *)
(***************************************************************************)
\* Annual rows carry a year in 1..MaxYear.
MaxYear == 2
\* A series handed to the scorecard holds at most MaxRows annual rows.
MaxRows == 6

Years == 1..MaxYear
\* The content of a row besides (ticker, year): one of two distinguishable
\* values of the remaining required columns (a column the caller left out
\* reads as null after lines 30-32 and is part of that value).
Vals == {"old", "new"}

\* A ticker is a tuple of characters, as the caller typed it.
Tickers == { <<"a", "/", "b">>, <<"A", "_", "B">> }

(***************************************************************************)
(* parquet_store.py                                                        *)
(***************************************************************************)
\* str.upper() on the characters in use.
UpperChar(c) == CASE c = "a" -> "A" [] c = "b" -> "B" [] OTHER -> c

Upper(t) == [i \in DOMAIN t |-> UpperChar(t[i])]

\* SAFE = [^A-Z0-9._-]: the characters the substitution leaves alone.
SAFE == {"A", "B", "0", "1", ".", "_", "-"}

\* _file_for: the file (its name without directory and suffix) of a ticker.
_file_for(ticker) ==
    LET t == Upper(ticker)
    IN  [i \in DOMAIN t |-> IF t[i] \in SAFE THEN t[i] ELSE "_"]

Paths == { _file_for(t) : t \in Tickers }

\* A cache file: absent, a readable table, or bytes read_parquet rejects.
NoFile == [st |-> "absent", rows |-> <<>>]
Table(rows) == [st |-> "ok", rows |-> rows]
TornFile == [st |-> "corrupt", rows |-> <<>>]

\* pd.read_parquet behind os.path.exists and try/except: an empty frame for
\* a missing or unreadable file.
ReadOrEmpty(file) == IF file.st = "ok" THEN file.rows ELSE <<>>

load_fundamentals(fs, ticker) == ReadOrEmpty(fs[_file_for(ticker)])

YearsOf(rows) == { rows[i].year : i \in DOMAIN rows }

\* Insert r into a year-sorted sequence, after the rows of the same year.
RECURSIVE InsertAfter(_, _)
InsertAfter(r, s) ==
    IF s = <<>> THEN <<r>>
    ELSE IF Head(s).year <= r.year THEN <<Head(s)>> \o InsertAfter(r, Tail(s))
    ELSE <<r>> \o s

\* Insert r into a year-sorted sequence, before the rows of the same year.
RECURSIVE InsertBefore(_, _)
InsertBefore(r, s) ==
    IF s = <<>> THEN <<r>>
    ELSE IF Head(s).year < r.year THEN <<Head(s)>> \o InsertBefore(r, Tail(s))
    ELSE <<r>> \o s

\* DataFrame.sort_values("year"), kind="quicksort": ascending by year; the
\* order of rows that share a year is the build's (the sort is not stable).
\* stable = TRUE keeps their input order, stable = FALSE reverses it.
RECURSIVE SortFrom(_, _, _)
SortFrom(rows, acc, stable) ==
    IF rows = <<>> THEN acc
    ELSE SortFrom(Tail(rows),
                  IF stable THEN InsertAfter(Head(rows), acc)
                  ELSE InsertBefore(Head(rows), acc),
                  stable)

SortByYear(rows, stable) == SortFrom(rows, <<>>, stable)

\* A copy that keeps the tickers as typed.
NormalizeAsTyped(df) == df

\* Lines 29-33: the copy with its ticker column upper-cased.
Normalize(df) == [i \in DOMAIN df |-> [df[i] EXCEPT !.ticker = Upper(@)]]

\* Code points of the characters in use, for the order groupby iterates in.
Ord(c) == CASE c = "/" -> 47 [] c = "A" -> 65 [] c = "B" -> 66
            [] c = "_" -> 95 [] c = "a" -> 97 [] c = "b" -> 98 [] OTHER -> 0

RECURSIVE StrLeq(_, _)
StrLeq(a, b) ==
    IF a = <<>> THEN TRUE
    ELSE IF b = <<>> THEN FALSE
    ELSE IF Ord(Head(a)) # Ord(Head(b)) THEN Ord(Head(a)) < Ord(Head(b))
    ELSE StrLeq(Tail(a), Tail(b))

\* One group of out.groupby(out["ticker"]): the rows of a ticker, in order.
Chunk(out, tkr) == SelectSeq(out, LAMBDA r : r.ticker = tkr)

\* A merge that appends the group to all the old rows.
MergedAppend(file, chunk, stable) ==
    SortByYear(ReadOrEmpty(file) \o chunk, stable)

\* Lines 35-48: what one group writes to its file.
Merged(file, chunk, stable) ==
    LET old == ReadOrEmpty(file)
        kept == SelectSeq(old, LAMBDA r : r.year \notin YearsOf(chunk))
    IN  SortByYear(IF file.st # "absent" /\ old # <<>> THEN kept \o chunk
                   ELSE chunk, stable)

\* The loop of line 34 over the groups still to do, in key order.
RECURSIVE UpsertGroups(_, _, _, _)
UpsertGroups(fs, out, keys, stable) ==
    IF keys = {} THEN fs
    ELSE LET tkr == CHOOSE k \in keys : \A j \in keys : StrLeq(k, j)
             path == _file_for(tkr)
         IN  UpsertGroups(
                 [fs EXCEPT ![path] = Table(Merged(fs[path], Chunk(out, tkr), stable))],
                 out, keys \ {tkr}, stable)

upsert_fundamentals(fs, df, stable) ==
    IF df = <<>> THEN fs
    ELSE LET out == Normalize(df)
         IN  UpsertGroups(fs, out, { out[i].ticker : i \in DOMAIN out }, stable)

(***************************************************************************)
(* data_providers.py                                                       *)
(***************************************************************************)
\* _get_json(url, timeout=12, retries=2, backoff=0.6); backoff in tenths of
\* a second.
retries == 2
backoff == 6

\* A statement list holds at most MaxItems elements.
MaxItems == 1

RECURSIVE Pow2(_)
Pow2(n) == IF n = 0 THEN 1 ELSE 2 * Pow2(n - 1)

\* A backoff that forgets the exponent.
SleepFlat(i) == backoff

\* time.sleep(backoff * (2 ** i))
SleepFor(i) == backoff * Pow2(i)

\* if i < retries: sleep and go round again; else: raise e
MayRetry(i) == i < retries

\* An element of a statement list: its calendarYear (or none) and the rest.
\* calendarYear is <<y>>, or <<>> where the element has no such key.
Missing == <<>>
Elems == [calendarYear : {<<1>>, <<2>>, Missing}, v : {"x"}]

\* What r.json() can be: an object (an error message, say) or a list.
ErrorObject == [kind |-> "dict", items |-> <<>>]
JsonList(items) == [kind |-> "list", items |-> items]
Responses ==
    {ErrorObject} \cup { JsonList(l) : l \in UNION { [1..n -> Elems] : n \in 0..MaxItems } }

\* What a call returns to its caller.
Absent == [kind |-> "none"]
Raised(err) == [kind |-> "raise", err |-> err]
Frame(rows) == [kind |-> "rows", rows |-> rows]

Min(a, b) == IF a <= b THEN a ELSE b

\* Lines 33-53 of get_fmp_fundamentals, the three responses in hand.
Assemble(ticker, income, balance, cash, stable) ==
    IF ~(income.kind = "list" /\ balance.kind = "list" /\ cash.kind = "list")
    THEN Absent
    ELSE LET n == Min(Len(income.items), Min(Len(balance.items), Len(cash.items)))
             rows == [i \in 1..n |->
                        [ticker |-> Upper(ticker),
                         year |-> income.items[i].calendarYear[1],
                         val |-> <<income.items[i].v, balance.items[i].v,
                                   cash.items[i].v>>]]
         IN  IF \E i \in 1..n : income.items[i].calendarYear = Missing
             THEN Raised("KeyError: calendarYear")        \* line 38
             ELSE IF n = 0 THEN Raised("KeyError: year")  \* line 52, no column
             ELSE Frame(SortByYear(rows, stable))

\* A statement request that failed on every attempt.
Failed == [kind |-> "failed", items |-> <<>>]

\* get_fmp_fundamentals(ticker), given whether FMP_API_KEY is set and what
\* each of the three _get_json calls ends with.
get_fmp_fundamentals(ticker, key, r, stable) ==
    IF ~key THEN Absent
    ELSE IF \E k \in 1..3 : r[k] = Failed THEN Raised("HTTPError")
    ELSE Assemble(ticker, r[1], r[2], r[3], stable)

(***************************************************************************)
(* streamlit_app.py: where a ticker's fundamentals come from               *)
(***************************************************************************)
NoUpload == [given |-> FALSE, rows |-> <<>>]
Uploaded(rows) == [given |-> TRUE, rows |-> rows]

\* df[df["ticker"].str.upper() == t].sort_values("year")
Slice(rows, t, stable) ==
    SortByYear(SelectSeq(rows, LAMBDA r : Upper(r.ticker) = t), stable)

\* fundamentals_for_ticker(ticker, uploaded_df), lines 59-69; remote is what
\* get_fmp_fundamentals ends with if it is called.
fundamentals_for_ticker(ticker, up, csv, remote, stable) ==
    LET t == Upper(ticker)
        f == Slice(up.rows, t, stable)
        g == Slice(csv, t, stable)
    IN  IF up.given /\ f # <<>> THEN [src |-> "upload", out |-> Frame(f)]
        ELSE IF g # <<>> THEN [src |-> "sample", out |-> Frame(g)]
        ELSE [src |-> "remote", out |-> remote]

\* The lookup tab, lines 192-198: the same order, inline.
LookupResolve(tkr, up, csv, remote, stable) ==
    LET f == Slice(up.rows, tkr, stable)
        g == Slice(csv, tkr, stable)
    IN  IF up.given /\ f # <<>> THEN [src |-> "upload", out |-> Frame(f)]
        ELSE IF g # <<>> THEN [src |-> "sample", out |-> Frame(g)]
        ELSE [src |-> "remote", out |-> remote]

\* The portfolio tab, lines 82 and 157-164: the upload replaces the sample,
\* and "get_fmp_fundamentals(...) or pd.DataFrame()" asks a frame for its
\* truth value.
PortfolioResolve(tkr, up, csv, remote, stable) ==
    LET fund == IF up.given THEN up.rows ELSE csv
        fdf == Slice(fund, Upper(tkr), stable)
    IN  IF fdf # <<>>
        THEN [src |-> IF up.given THEN "upload" ELSE "sample", out |-> Frame(fdf)]
        ELSE [src |-> "remote",
              out |-> IF remote.kind = "rows" THEN Raised("ValueError: truth value")
                      ELSE IF remote.kind = "none" THEN Frame(<<>>)
                      ELSE remote]

Sites == {"fundamentals_for_ticker", "lookup", "portfolio"}

ResolveAt(site, tkr, up, csv, remote, stable) ==
    CASE site = "fundamentals_for_ticker" ->
            fundamentals_for_ticker(tkr, up, csv, remote, stable)
      [] site = "lookup" -> LookupResolve(Upper(tkr), up, csv, remote, stable)
      [] OTHER -> PortfolioResolve(tkr, up, csv, remote, stable)

(***************************************************************************)
(* buffett_eval/metrics.py                                                 *)
(***************************************************************************)
\* A nullable number: <<>> for null/NaN, <<n>> for n.
Null == <<>>
Num(n) == <<n>>
notna(x) == x # Null

\* MetricResult without its details text. value is Null, a ratio <<p, q>>
\* (p/q) or a growth rate <<last, first, k>> ((last/first)^(1/k) - 1);
\* pass_flag is "True", "False" or "None".
MetricResult(name, value, pass_flag) ==
    [name |-> name, value |-> value, pass_flag |-> pass_flag]

Bool(b) == IF b THEN "True" ELSE "False"

\* p/q < a/b and p/q >= a/b for b > 0 and q # 0, in integers.
RatioLess(p, q, a, b) == IF q > 0 THEN p * b < a * q ELSE p * b > a * q
RatioGeq(p, q, a, b) == ~RatioLess(p, q, a, b)

\* df.sort_values('year').tail(5)
Window == 5

\* A window taken from the wrong end.
Head5(df, stable) ==
    LET s == SortByYear(df, stable)
    IN  IF Len(s) <= Window THEN s ELSE SubSeq(s, 1, Window)

Tail5(df, stable) ==
    LET s == SortByYear(df, stable)
    IN  IF Len(s) <= Window THEN s ELSE SubSeq(s, Len(s) - Window + 1, Len(s))

\* de_latest: .iloc[-1] of an empty column raises.
de_latest(df, stable) ==
    IF df = <<>> THEN Raised("IndexError")
    ELSE LET df2 == SortByYear(df, stable)
             last_eq == df2[Len(df2)].shareholders_equity
             last_debt == df2[Len(df2)].total_debt
             has == notna(last_eq) /\ last_eq # Num(0) /\ notna(last_debt)
             pass_flag == has /\ RatioLess(last_debt[1], last_eq[1], 1, 2)
         IN  MetricResult("Debt-to-Equity < 50% (latest)",
                          IF has THEN <<last_debt[1], last_eq[1]>> ELSE Null,
                          Bool(pass_flag))

\* A number too large for the rounding of float64 to go unnoticed: Big(d) is
\* 2^52 + d, for small d >= 0. Num(n) is used for |n| < 2^26 only.
Big(d) == <<d, 52>>
IsBig(x) == Len(x) = 2

\* x <= 0 and a > b, for numbers of either kind.
NonPositive(x) == ~IsBig(x) /\ x[1] <= 0
Greater(a, b) == IF IsBig(a) = IsBig(b) THEN a[1] > b[1] ELSE IsBig(a)

\* cg > 0 for cg = (last / first) ** (1 / k) - 1 in float64, first, last > 0.
\* Below 2^26 two different values have a quotient at least 2^-26 away from
\* 1 and a k-th root (k <= 4) at least 2^-29 away: the sign is exact. For
\* 2^52 + a over 2^52 + b the quotient rounds to 1 + (a - b) * 2^-52 and its
\* k-th root, 1 + ((a - b) / k) * 2^-52 less a little, rounds to the nearest
\* multiple of 2^-52; x ** 1.0 is x.
CagrPositive(last, first, k) ==
    IF IsBig(last) /\ IsBig(first)
    THEN IF k = 1 THEN last[1] > first[1] ELSE 2 * (last[1] - first[1]) > k
    ELSE Greater(last, first)

\* equity_growth_5y and profit_growth_5y differ in the column and the name.
Growth5y(df, col, name, stable) ==
    LET df2 == Tail5(df, stable)
    IN  IF Len(df2) < 2 THEN MetricResult(name, Null, "None")
        ELSE LET first == df2[1][col]
                 last == df2[Len(df2)][col]
             IN  IF first = Null \/ last = Null \/ NonPositive(first) \/ NonPositive(last)
                 THEN MetricResult(name, Null, "None")
                 ELSE MetricResult(name, <<last, first, Len(df2) - 1>>,
                                   Bool(CagrPositive(last, first, Len(df2) - 1)))

equity_growth_5y(df, stable) ==
    Growth5y(df, "shareholders_equity", "Equity growing (5y)", stable)

profit_growth_5y(df, stable) ==
    Growth5y(df, "net_income", "Profit growing (5y)", stable)

\* roe_consistent_5y(df, 0.15): the years whose net_income / equity is not
\* NaN (equity replaced by NA where 0), and among them those >= 15/100.
roe_consistent_5y(df, stable) ==
    LET df2 == Tail5(df, stable)
        roe == SelectSeq(df2, LAMBDA r : /\ notna(r.net_income)
                                         /\ notna(r.shareholders_equity)
                                         /\ r.shareholders_equity # Num(0))
        hit == SelectSeq(roe, LAMBDA r : RatioGeq(r.net_income[1],
                                                  r.shareholders_equity[1], 15, 100))
    IN  IF roe = <<>> THEN MetricResult("ROE >= 15% (5y)", Null, "None")
        ELSE MetricResult("ROE >= 15% (5y)", <<Len(hit), Len(roe)>>,
                          Bool(5 * Len(hit) >= 4 * Len(roe)))

\* A rule that takes a year without free cash flow for a positive one.
fcf_nonnegative_5y(df, stable) ==
    LET df2 == Tail5(df, stable)
        pos == SelectSeq(df2, LAMBDA r : notna(r.free_cash_flow)
                                         /\ r.free_cash_flow[1] >= 0)
        pos_ratio == IF Len(df2) > 0 THEN <<Len(pos), Len(df2)>> ELSE <<0, 1>>
    IN  MetricResult("FCF positive (5y)", pos_ratio,
                     Bool(pos_ratio[1] = pos_ratio[2]))

\* fcf_positive_5y: the share of window years with free_cash_flow > 0.
fcf_positive_5y(df, stable) ==
    LET df2 == Tail5(df, stable)
        pos == SelectSeq(df2, LAMBDA r : notna(r.free_cash_flow)
                                         /\ r.free_cash_flow[1] > 0)
        pos_ratio == IF Len(df2) > 0 THEN <<Len(pos), Len(df2)>> ELSE <<0, 1>>
    IN  MetricResult("FCF positive (5y)", pos_ratio,
                     Bool(pos_ratio[1] = pos_ratio[2]))

\* scorecard: the list of the five checks, or the first exception raised
\* while the list is built.
scorecard(df, stable) ==
    LET checks == << equity_growth_5y(df, stable),
                     de_latest(df, stable),
                     profit_growth_5y(df, stable),
                     roe_consistent_5y(df, stable),
                     fcf_positive_5y(df, stable) >>
    IN  IF \E i \in 1..5 : "err" \in DOMAIN checks[i]
        THEN checks[CHOOSE i \in 1..5 : /\ "err" \in DOMAIN checks[i]
                                        /\ \A j \in 1..(i - 1) : "err" \notin DOMAIN checks[j]]
        ELSE [kind |-> "ok", checks |-> checks]

\* A mean over all the results, the unknown ones counted as failures.
aggregate_score_all(results) ==
    LET trues == SelectSeq(results, LAMBDA r : r.pass_flag = "True")
    IN  IF results # <<>> THEN <<Len(trues), Len(results)>> ELSE Null

\* aggregate_score: sum(flags) / len(flags) over the flags that are not None.
aggregate_score(results) ==
    LET flags == SelectSeq(results, LAMBDA r : r.pass_flag # "None")
        trues == SelectSeq(flags, LAMBDA r : r.pass_flag = "True")
    IN  IF flags # <<>> THEN <<Len(trues), Len(flags)>> ELSE Null

(***************************************************************************)
(* streamlit_app.py: the price-to-book entry of the lookup tab             *)
(***************************************************************************)
\* A Python value in these lines: None, the float nan, or the number n / d.
PyNone == [k |-> "none", n |-> 0, d |-> 1]
NaN == [k |-> "nan", n |-> 0, d |-> 1]
Float(n) == [k |-> "num", n |-> n, d |-> 1]

\* x == 0, as "x in (None, 0)" tests it (nan is neither).
IsZero(x) == x.k = "num" /\ x.n = 0

\* a / b for floats, b not zero.
Div(a, b) ==
    IF a.k = "nan" \/ b.k = "nan" THEN NaN
    ELSE [k |-> "num", n |-> a.n * b.d, d |-> a.d * b.n]

\* price = price_input if price_input > 0 else fetched_price
PriceOf(price_input, fetched_price) ==
    IF price_input > 0 THEN Float(price_input) ELSE fetched_price

\* bvps = (equity / shares) if (equity is not None and shares not in (None, 0)) else None
bvps(equity, shares) ==
    IF equity # PyNone /\ shares # PyNone /\ ~IsZero(shares)
    THEN Div(equity, shares) ELSE PyNone

\* pb_ratio = (price / bvps) if (price is not None and bvps not in (None, 0)) else None
pb_ratio(price, b) ==
    IF price # PyNone /\ b # PyNone /\ ~IsZero(b) THEN Div(price, b) ELSE PyNone

\* pb_pass = (pb_ratio is not None) and (pb_ratio <= 0.80); nan <= 0.80 is
\* False.
pb_pass(r) ==
    /\ r # PyNone
    /\ r.k = "num"
    /\ IF r.d > 0 THEN 5 * r.n <= 4 * r.d ELSE 5 * r.n >= 4 * r.d

\* Lines 247-250: the badge shown.
PbBadge(pass) == IF pass THEN "PASS" ELSE "FAIL"

(***************************************************************************)
(* State                                                                   *)
(***************************************************************************)
VARIABLES
    files,       \* the cache directory: path -> cache file
    stableSort,  \* whether this build's sort keeps the order of equal years
    sample,      \* the rows of data/sample_fundamentals.csv
    ret,         \* the last call and what it returned
    fetch,       \* get_fmp_fundamentals under way: its place and its calls
    io,          \* per process: upsert_fundamentals under way, one file
                 \* access at a time
    series,      \* the fundamentals series on the scorecard's table
    card         \* what scorecard and aggregate_score returned for it

vars == <<files, stableSort, sample, ret, fetch, io, series, card>>

RowsOf(ts) == [ticker : ts, year : Years, val : Vals]

\* The batches a caller may hand to upsert_fundamentals: no row, one row, or
\* two rows (of one ticker or two, of one year or two).
Batches == UNION { [1..n -> RowsOf(Tickers)] : n \in {0, 1, 2} }

Idle == [op |-> "idle"]
NoFetch == [pc |-> "idle"]
Procs == {1, 2}
NoIo == [pc |-> "idle"]
NoCard == [op |-> "none"]

Init ==
    /\ files = [p \in Paths |-> NoFile]
    /\ stableSort \in BOOLEAN
    /\ sample = <<>>
    /\ ret = Idle
    /\ fetch = NoFetch
    /\ io = [p \in Procs |-> NoIo]
    /\ series = <<>>
    /\ card = NoCard

(***************************************************************************)
(* The store's operations, one call at a time (spec: single-threaded)      *)
(***************************************************************************)
\* upsert_fundamentals(df); ret remembers the call and the cache it found.
Upsert(df) ==
    /\ ret.op = "idle"
    /\ files' = upsert_fundamentals(files, df, stableSort)
    /\ ret' = [op |-> "upsert", df |-> df, before |-> files, again |-> FALSE]
    /\ UNCHANGED <<stableSort, sample, fetch, io, series, card>>

\* upsert_fundamentals(df) once more, right after the same call.
UpsertAgain ==
    /\ ret.op = "upsert"
    /\ files' = upsert_fundamentals(files, ret.df, stableSort)
    /\ ret' = [op |-> "upsert", df |-> ret.df, before |-> files, again |-> TRUE]
    /\ UNCHANGED <<stableSort, sample, fetch, io, series, card>>

\* load_fundamentals(ticker)
Load(ticker) ==
    /\ ret.op = "idle"
    /\ ret' = [op |-> "load", ticker |-> ticker,
               val |-> load_fundamentals(files, ticker)]
    /\ UNCHANGED <<files, stableSort, sample, fetch, io, series, card>>

\* The caller is done with the result of the last call.
Return ==
    /\ ret.op # "idle"
    /\ ret' = Idle
    /\ UNCHANGED <<files, stableSort, sample, fetch, io, series, card>>

Next ==
    \/ \E df \in Batches : Upsert(df)
    \/ \E t \in Tickers : Load(t)
    \/ Return

Spec == Init /\ [][Next]_vars

\* The same, with calls that repeat the call before them.
NextTwice == Next \/ UpsertAgain

SpecTwice == Init /\ [][NextTwice]_vars

(***************************************************************************)
(* Resolution of a ticker's fundamentals                                   *)
(***************************************************************************)
\* The sample file of the repository, and the tables a user may upload.
SampleTables == { <<>>, <<[ticker |-> <<"A", "_", "B">>, year |-> 1, val |-> "old"]>> }
Uploads == {NoUpload} \cup { Uploaded(df) : df \in { d \in Batches : Len(d) <= 1 } }

InitResolve ==
    /\ files = [p \in Paths |-> NoFile]
    /\ stableSort \in BOOLEAN
    /\ sample \in SampleTables
    /\ ret = Idle
    /\ fetch = NoFetch
    /\ io = [p \in Procs |-> NoIo]
    /\ series = <<>>
    /\ card = NoCard

\* Every way get_fmp_fundamentals can end for a ticker: with or without a
\* key, each statement request failing or answering with any response.
FmpOutcomes ==
    [t \in Tickers, st \in BOOLEAN |->
        { get_fmp_fundamentals(t, key, r, st) :
            key \in BOOLEAN, r \in [1..3 -> Responses \cup {Failed}] }]

\* One resolution at a call site.
Resolve(site, tkr, up) ==
    /\ ret.op = "idle"
    /\ \E remote \in FmpOutcomes[tkr, stableSort] :
          LET got == ResolveAt(site, tkr, up, sample, remote, stableSort)
          IN  ret' = [op |-> "resolve", site |-> site, ticker |-> tkr,
                      upload |-> up, src |-> got.src, out |-> got.out,
                      remote |-> IF got.src = "remote" THEN remote ELSE Absent]
    /\ UNCHANGED <<files, stableSort, sample, fetch, io, series, card>>

\* Somebody fills the cache.
Fill(df) == Len(df) = 1 /\ Upsert(df)

NextResolve ==
    \/ \E site \in Sites, t \in Tickers, up \in Uploads : Resolve(site, t, up)
    \/ \E df \in Batches : Fill(df)
    \/ Return

SpecResolve == InitResolve /\ [][NextResolve]_vars

(***************************************************************************)
(* get_fmp_fundamentals, one requests.get at a time                        *)
(***************************************************************************)
NoCall == [tries |-> 0, sleeps |-> <<>>, ok |-> TRUE]

\* The call starts: no key, no request.
FetchCall(tkr, key) ==
    /\ fetch.pc = "idle"
    /\ fetch' = IF key
                THEN [pc |-> "get", ticker |-> tkr, i |-> 0, sleeps |-> <<>>,
                      last |-> NoCall, got |-> <<>>]
                ELSE [pc |-> "done", ticker |-> tkr, last |-> NoCall, got |-> <<>>,
                      out |-> Absent]
    /\ UNCHANGED <<files, stableSort, sample, ret, io, series, card>>

\* What _get_json leaves behind when it ends: the attempts it made, the
\* sleeps it took and whether it returned.
Ended(ok) == [tries |-> fetch.i + 1, sleeps |-> fetch.sleeps, ok |-> ok]

\* Attempt i succeeds: _get_json returns r.json() and the next statement is
\* requested, or the three are assembled.
GetOk(resp) ==
    /\ fetch.pc = "get"
    /\ LET got == Append(fetch.got, resp)
       IN  fetch' = IF Len(got) < 3
                    THEN [fetch EXCEPT !.i = 0, !.sleeps = <<>>,
                                       !.last = Ended(TRUE), !.got = got]
                    ELSE [pc |-> "done", ticker |-> fetch.ticker,
                          last |-> Ended(TRUE), got |-> got,
                          out |-> Assemble(fetch.ticker, got[1], got[2], got[3],
                                           stableSort)]
    /\ UNCHANGED <<files, stableSort, sample, ret, io, series, card>>

\* Attempt i fails (transport, status or body): sleep and try again, or
\* raise the error.
GetFail ==
    /\ fetch.pc = "get"
    /\ fetch' = IF MayRetry(fetch.i)
                THEN [fetch EXCEPT !.i = @ + 1,
                                   !.sleeps = Append(@, SleepFor(fetch.i))]
                ELSE [pc |-> "done", ticker |-> fetch.ticker,
                      last |-> Ended(FALSE), got |-> fetch.got,
                      out |-> Raised("HTTPError")]
    /\ UNCHANGED <<files, stableSort, sample, ret, io, series, card>>

\* The caller has the result (or the exception).
FetchReturn ==
    /\ fetch.pc = "done"
    /\ fetch' = NoFetch
    /\ UNCHANGED <<files, stableSort, sample, ret, io, series, card>>

GetStep == GetFail \/ \E resp \in Responses : GetOk(resp)

NextFetch ==
    \/ \E t \in Tickers, key \in BOOLEAN : FetchCall(t, key)
    \/ \E resp \in Responses : GetOk(resp)
    \/ GetFail
    \/ FetchReturn

SpecFetch == Init /\ [][NextFetch]_vars

\* requests.get(url, timeout=12) ends, one way or the other, and a sleep
\* ends: a call under way takes its next step.
SpecFetchLive == SpecFetch /\ WF_vars(GetStep)

(***************************************************************************)
(* upsert_fundamentals, one file access at a time                          *)
(***************************************************************************)
\* Lines 25-33: the call starts with its normalised copy and its groups.
UpsertBegin(p, df) ==
    /\ io[p].pc = "idle"
    /\ df # <<>>
    /\ LET out == Normalize(df)
       IN  io' = [io EXCEPT ![p] = [pc |-> "group", out |-> out,
                                    keys |-> { out[i].ticker : i \in DOMAIN out }]]
    /\ UNCHANGED <<files, stableSort, sample, ret, fetch, series, card>>

\* A read that waits while another process is between its read and the end
\* of its write.
ReadOldLocked(p) ==
    /\ \A q \in Procs \ {p} : io[q].pc \notin {"merged", "writing"}
    /\ io[p].pc = "group"
    /\ io[p].keys # {}
    /\ LET tkr == CHOOSE k \in io[p].keys : \A j \in io[p].keys : StrLeq(k, j)
           path == _file_for(tkr)
       IN  io' = [io EXCEPT ![p] =
                    [pc |-> "merged", out |-> io[p].out, keys |-> io[p].keys \ {tkr},
                     path |-> path, old |-> ReadOrEmpty(files[path]),
                     merged |-> Merged(files[path], Chunk(io[p].out, tkr), stableSort)]]
    /\ UNCHANGED <<files, stableSort, sample, ret, fetch, series, card>>

\* Lines 34-48: the next group reads its file and merges.
ReadOld(p) ==
    /\ io[p].pc = "group"
    /\ io[p].keys # {}
    /\ LET tkr == CHOOSE k \in io[p].keys : \A j \in io[p].keys : StrLeq(k, j)
           path == _file_for(tkr)
       IN  io' = [io EXCEPT ![p] =
                    [pc |-> "merged", out |-> io[p].out, keys |-> io[p].keys \ {tkr},
                     path |-> path, old |-> ReadOrEmpty(files[path]),
                     merged |-> Merged(files[path], Chunk(io[p].out, tkr), stableSort)]]
    /\ UNCHANGED <<files, stableSort, sample, ret, fetch, series, card>>

\* Line 49, to_parquet(path) opens the file for writing: the old bytes are
\* gone and the new table has no footer yet.
OpenForWrite(p) ==
    /\ io[p].pc = "merged"
    /\ files' = [files EXCEPT ![io[p].path] = TornFile]
    /\ io' = [io EXCEPT ![p].pc = "writing"]
    /\ UNCHANGED <<stableSort, sample, ret, fetch, series, card>>

\* Line 49, to_parquet(path) has written the table and closed the file.
CloseFile(p) ==
    /\ io[p].pc = "writing"
    /\ files' = [files EXCEPT ![io[p].path] = Table(io[p].merged)]
    /\ io' = [io EXCEPT ![p].pc = "group"]
    /\ UNCHANGED <<stableSort, sample, ret, fetch, series, card>>

\* The loop is over: the call returns.
UpsertEnd(p) ==
    /\ io[p].pc = "group"
    /\ io[p].keys = {}
    /\ io' = [io EXCEPT ![p] = NoIo]
    /\ UNCHANGED <<files, stableSort, sample, ret, fetch, series, card>>

\* The process stops where it is (killed, power lost) while a group is in
\* hand; what it did to the file stays.
Stop(p) ==
    /\ io[p].pc \in {"merged", "writing"}
    /\ io' = [io EXCEPT ![p].pc = "stopped"]
    /\ UNCHANGED <<files, stableSort, sample, ret, fetch, series, card>>

\* A new process takes its place.
Restart(p) ==
    /\ io[p].pc = "stopped"
    /\ io' = [io EXCEPT ![p] = NoIo]
    /\ UNCHANGED <<files, stableSort, sample, ret, fetch, series, card>>

NextIO ==
    \/ \E df \in Batches : UpsertBegin(1, df)
    \/ ReadOld(1)
    \/ OpenForWrite(1)
    \/ CloseFile(1)
    \/ UpsertEnd(1)
    \/ Stop(1)
    \/ Restart(1)

SpecIO == Init /\ [][NextIO]_vars

(***************************************************************************)
(* upsert_fundamentals in two processes                                    *)
(***************************************************************************)
\* Each process upserts one row of the same ticker, of any year.
ConcBatches ==
    { <<[ticker |-> <<"A", "_", "B">>, year |-> y, val |-> "new"]>> : y \in Years }

NextConc ==
    \E p \in Procs :
        \/ \E df \in ConcBatches : UpsertBegin(p, df)
        \/ ReadOld(p)
        \/ OpenForWrite(p)
        \/ CloseFile(p)
        \/ UpsertEnd(p)

SpecConc == Init /\ [][NextConc]_vars

(***************************************************************************)
(* The scorecard of a series                                               *)
(***************************************************************************)
\* The columns of one annual row: sound, indebted and stagnant, without
\* equity, without data, with negative equity.
Profiles ==
    { [shareholders_equity |-> Num(100), total_debt |-> Num(40),
       net_income |-> Num(20), free_cash_flow |-> Num(5)],
      [shareholders_equity |-> Num(80), total_debt |-> Num(40),
       net_income |-> Num(12), free_cash_flow |-> Num(0)],
      [shareholders_equity |-> Num(0), total_debt |-> Num(10),
       net_income |-> Num(5), free_cash_flow |-> Num(-1)],
      [shareholders_equity |-> Null, total_debt |-> Null,
       net_income |-> Null, free_cash_flow |-> Null],
      [shareholders_equity |-> Num(-50), total_debt |-> Num(10),
       net_income |-> Num(-5), free_cash_flow |-> Num(3)] }

\* One more annual row, for the year after the last.
AddYear(cols) ==
    /\ Len(series) < MaxRows
    /\ series' = Append(series,
                        [year |-> Len(series) + 1,
                         shareholders_equity |-> cols.shareholders_equity,
                         total_debt |-> cols.total_debt,
                         net_income |-> cols.net_income,
                         free_cash_flow |-> cols.free_cash_flow])
    /\ card' = NoCard
    /\ UNCHANGED <<files, stableSort, sample, ret, fetch, io>>

\* results = scorecard(fdf, years=5); score = aggregate_score(results)
Score ==
    /\ card.op = "none"
    /\ LET results == scorecard(series, stableSort)
       IN  card' = [op |-> "scorecard", results |-> results,
                    score |-> IF results.kind = "ok"
                              THEN aggregate_score(results.checks) ELSE Null]
    /\ UNCHANGED <<files, stableSort, sample, ret, fetch, io, series>>

NextScore ==
    \/ \E cols \in Profiles : AddYear(cols)
    \/ Score

\* The series are built in year order, one row a year: the order of equal
\* years plays no part, and one build stands for both.
InitScore == Init /\ stableSort

SpecScore == InitScore /\ [][NextScore]_vars

(***************************************************************************)
(* The growth rules of a series                                            *)
(***************************************************************************)
\* Equity and net income of one annual row: growing and shrinking, zero and
\* null, null and negative, and two pairs one unit apart near 2^52.
ProfilesGrowth ==
    { [shareholders_equity |-> e[1], total_debt |-> Null,
       net_income |-> e[2], free_cash_flow |-> Null] :
        e \in { <<Num(100), Num(20)>>, <<Num(120), Num(10)>>, <<Num(0), Null>>,
                <<Null, Num(-5)>>, <<Big(0), Big(1)>>, <<Big(1), Big(0)>> } }

\* equity_growth_5y(df) and profit_growth_5y(df), called on their own.
Growth ==
    /\ card.op = "none"
    /\ card' = [op |-> "growth",
                equity |-> equity_growth_5y(series, stableSort),
                profit |-> profit_growth_5y(series, stableSort)]
    /\ UNCHANGED <<files, stableSort, sample, ret, fetch, io, series>>

NextGrowth ==
    \/ \E cols \in ProfilesGrowth : AddYear(cols)
    \/ Growth

SpecGrowth == InitScore /\ [][NextGrowth]_vars

(***************************************************************************)
(* The ROE rule of a series                                                *)
(***************************************************************************)
\* Net income and equity of one annual row: ROE of 20% and of 10%, no net
\* income, no equity (zero), and both negative (ROE of 20%).
ProfilesRoe ==
    { [shareholders_equity |-> e[2], total_debt |-> Null,
       net_income |-> e[1], free_cash_flow |-> Null] :
        e \in { <<Num(20), Num(100)>>, <<Num(10), Num(100)>>, <<Null, Num(100)>>,
                <<Num(5), Num(0)>>, <<Num(-10), Num(-50)>> } }

\* roe_consistent_5y(df, 0.15), called on its own.
Roe ==
    /\ card.op = "none"
    /\ card' = [op |-> "roe", result |-> roe_consistent_5y(series, stableSort)]
    /\ UNCHANGED <<files, stableSort, sample, ret, fetch, io, series>>

NextRoe ==
    \/ \E cols \in ProfilesRoe : AddYear(cols)
    \/ Roe

SpecRoe == InitScore /\ [][NextRoe]_vars

(***************************************************************************)
(* The FCF rule of a series                                                *)
(***************************************************************************)
\* Free cash flow of one annual row: positive, zero, negative, null.
ProfilesFcf ==
    { [shareholders_equity |-> Null, total_debt |-> Null,
       net_income |-> Null, free_cash_flow |-> f] :
        f \in { Num(5), Num(0), Num(-1), Null } }

\* fcf_positive_5y(df), called on its own.
Fcf ==
    /\ card.op = "none"
    /\ card' = [op |-> "fcf", result |-> fcf_positive_5y(series, stableSort)]
    /\ UNCHANGED <<files, stableSort, sample, ret, fetch, io, series>>

NextFcf ==
    \/ \E cols \in ProfilesFcf : AddYear(cols)
    \/ Fcf

SpecFcf == InitScore /\ [][NextFcf]_vars

(***************************************************************************)
(* The aggregate of a list of results                                      *)
(***************************************************************************)
\* A list handed to aggregate_score holds at most MaxResults results.
MaxResults == 5

ResultLists ==
    UNION { [1..n -> { MetricResult("rule", Null, f) : f \in {"True", "False", "None"} }] :
              n \in 0..MaxResults }

\* The columns of one annual row: sound, indebted and stagnant, without data.
ProfilesAggregate ==
    { [shareholders_equity |-> Num(100), total_debt |-> Num(40),
       net_income |-> Num(20), free_cash_flow |-> Num(5)],
      [shareholders_equity |-> Num(80), total_debt |-> Num(40),
       net_income |-> Num(12), free_cash_flow |-> Num(0)],
      [shareholders_equity |-> Null, total_debt |-> Null,
       net_income |-> Null, free_cash_flow |-> Null] }

\* aggregate_score(results), called with a list of its caller's making.
Aggregate(results) ==
    /\ card.op = "none"
    /\ series = <<>>
    /\ card' = [op |-> "aggregate", results |-> results,
                score |-> aggregate_score(results)]
    /\ UNCHANGED <<files, stableSort, sample, ret, fetch, io, series>>

NextAggregate ==
    \/ \E results \in ResultLists : Aggregate(results)
    \/ \E cols \in ProfilesAggregate : AddYear(cols)
    \/ Score

SpecAggregate == InitScore /\ [][NextAggregate]_vars

(***************************************************************************)
(* The price-to-book entry                                                 *)
(***************************************************************************)
\* The price typed, the price fetched, and the latest row's equity and
\* shares cells: no such column (None), a null cell (nan) or a number.
PriceInputs == {0, 8, 20}
FetchedPrices == {PyNone, Float(9)}
EquityCells == {PyNone, NaN, Float(-10), Float(0), Float(10)}
SharesCells == {PyNone, NaN, Float(0), Float(1)}

\* Lines 212-230 and 247-250 for one ticker on the lookup tab.
PbEntry(price_input, fetched_price, equity, shares) ==
    /\ card.op = "none"
    /\ LET price == PriceOf(price_input, fetched_price)
           b == bvps(equity, shares)
           ratio == pb_ratio(price, b)
       IN  card' = [op |-> "pb", price_input |-> price_input,
                    fetched_price |-> fetched_price, price |-> price,
                    equity |-> equity, shares |-> shares, bvps |-> b,
                    pb_ratio |-> ratio, badge |-> PbBadge(pb_pass(ratio))]
    /\ UNCHANGED <<files, stableSort, sample, ret, fetch, io, series>>

\* The page is run again.
Rerun ==
    /\ card.op = "pb"
    /\ card' = NoCard
    /\ UNCHANGED <<files, stableSort, sample, ret, fetch, io, series>>

NextEntry ==
    \/ \E pi \in PriceInputs, fp \in FetchedPrices, e \in EquityCells, sh \in SharesCells :
          PbEntry(pi, fp, e, sh)
    \/ Rerun

SpecEntry == InitScore /\ [][NextEntry]_vars

(***************************************************************************)
(* Properties                                                              *)
(***************************************************************************)
SetOf(rows) == { rows[i] : i \in DOMAIN rows }
Ascending(rows) == \A i \in 1..(Len(rows) - 1) : rows[i].year < rows[i + 1].year
UniqueYears(rows) == \A i, j \in DOMAIN rows : i # j => rows[i].year # rows[j].year
Uppered(rows) == { [r EXCEPT !.ticker = Upper(@)] : r \in SetOf(rows) }
\* The rows of a batch that belong in the file at path.
IncomingAt(df, path) == { r \in Uppered(df) : _file_for(r.ticker) = path }

\* C1: a resolution returns the uploaded rows of the ticker if there are any;
\* otherwise, whenever it returns rows, they are the rows the store holds for
\* the ticker when it returns: the store served them, or the remote provider
\* did and they were upserted before the return.
C1_WriteThrough ==
    ret.op = "resolve" =>
        LET up == Slice(ret.upload.rows, Upper(ret.ticker), stableSort)
        IN  /\ (ret.upload.given /\ up # <<>>) =>
                    (ret.src = "upload" /\ ret.out = Frame(up))
            /\ (up = <<>> /\ ret.out.kind = "rows") =>
                    (/\ ret.src \in {"store", "remote"}
                     /\ load_fundamentals(files, ret.ticker) = ret.out.rows)

\* C2: a resolution whose remote fetch raised returns the empty series; no
\* resolution ends with an exception of the remote provider.
C2_RemoteErrorsCaught ==
    (ret.op = "resolve" /\ ret.remote.kind = "raise") => ret.out = Frame(<<>>)

\* C3: after an upsert of a batch with unique years into a cache whose files
\* have unique years, every file holds exactly the cached rows of the years
\* not in the batch, unchanged, and the incoming rows (upper-cased), one row
\* a year, ascending by year.
C3_UpsertMerge ==
    (/\ ret.op = "upsert"
     /\ UniqueYears(ret.df)
     /\ \A p \in Paths : UniqueYears(ret.before[p].rows)) =>
        \A p \in Paths :
            LET inc == IncomingAt(ret.df, p)
                B == { r.year : r \in inc }
                old == SetOf(ret.before[p].rows)
            IN  /\ SetOf(files[p].rows) = { r \in old : r.year \notin B } \cup inc
                /\ Ascending(files[p].rows)
                /\ (files[p].st = "ok") = (old \cup inc # {})

\* C3's case: a year of the cache is replaced by a different incoming row
\* and another year of the cache stays.
C3_Witness ==
    /\ ret.op = "upsert"
    /\ UniqueYears(ret.df)
    /\ \E p \in Paths :
          LET inc == IncomingAt(ret.df, p)
              old == SetOf(ret.before[p].rows)
          IN  /\ UniqueYears(ret.before[p].rows)
              /\ \E r \in old, n \in inc : r.year = n.year /\ r # n
              /\ \E r \in old : \A n \in inc : r.year # n.year

\* C4: every cache file has unique years, in ascending order.
C4_UniqueSortedFiles ==
    \A p \in Paths : files[p].st = "ok" => Ascending(files[p].rows)

OneTicker(df) ==
    /\ df # <<>>
    /\ UniqueYears(df)
    /\ \A i \in DOMAIN df : Upper(df[i].ticker) = Upper(df[1].ticker)

\* C6 as stated: after the upsert of a one-ticker batch with unique years,
\* the ticker loads as the rows of the batch, whatever the cache held.
C6_RoundTripAnyCache ==
    (ret.op = "upsert" /\ OneTicker(ret.df)) =>
        SetOf(load_fundamentals(files, ret.df[1].ticker)) = Uppered(ret.df)

\* C6 amended: the ticker loads with, for the years of the batch, exactly the
\* rows of the batch (upper-cased), ascending by year within them; and it
\* loads as the rows of the batch alone when its file held no rows before.
C6_RoundTrip ==
    (ret.op = "upsert" /\ OneTicker(ret.df)) =>
        LET t == ret.df[1].ticker
            loaded == load_fundamentals(files, t)
            B == YearsOf(ret.df)
            mine == SelectSeq(loaded, LAMBDA r : r.year \in B)
        IN  /\ SetOf(mine) = Uppered(ret.df)
            /\ Ascending(mine)
            /\ load_fundamentals(ret.before, t) = <<>> => loaded = mine
            /\ YearsOf(loaded) = YearsOf(load_fundamentals(ret.before, t)) \cup B

\* C6's case: a batch of one ticker lands in a file that held a different
\* row of the batch's year and a row of another year; both years load.
C6_Witness ==
    /\ ret.op = "upsert"
    /\ OneTicker(ret.df)
    /\ LET t == ret.df[1].ticker
           prior == load_fundamentals(ret.before, t)
       IN  /\ UniqueYears(prior)
           /\ \E i \in DOMAIN prior : /\ prior[i].year = ret.df[1].year
                                      /\ prior[i].val # ret.df[1].val
           /\ \E i \in DOMAIN prior : prior[i].year \notin YearsOf(ret.df)
           /\ Len(load_fundamentals(files, t)) = 2

\* C7: while a process is at a group's file, or has stopped there, the file
\* loads as the series it read or as the merged series.
C7_AtomicWrite ==
    \A p \in Procs :
        io[p].pc \in {"merged", "writing", "stopped"} =>
            ReadOrEmpty(files[io[p].path]) \in {io[p].old, io[p].merged}

\* The sleeps of a call that has failed n times and may still retry.
RetrySleeps(n) == [k \in 1..n |-> backoff * 2^(k - 1)]

\* The attempts of _get_json: the call under way is at attempt i <= 2 and
\* has slept backoff * 2^0, ..., backoff * 2^(i-1); a call that ended made at
\* most 3 attempts, with a sleep between two attempts and none after the
\* last; it raised exactly if its third attempt failed.
C8_Attempts ==
    /\ fetch.pc = "get" => (fetch.i <= 2 /\ fetch.sleeps = RetrySleeps(fetch.i))
    /\ fetch.pc # "idle" =>
          /\ fetch.last.tries <= 3
          /\ fetch.last.sleeps = RetrySleeps(fetch.last.tries - 1)
          /\ ~fetch.last.ok => (/\ fetch.last.tries = 3
                                /\ fetch.pc = "done"
                                /\ fetch.out = Raised("HTTPError"))
          /\ (fetch.pc = "done" /\ fetch.out = Raised("HTTPError")) => ~fetch.last.ok

\* C8: a _get_json call makes at most 3 attempts; after failed attempt i < 2
\* it sleeps backoff * 2^i and tries again; it ends with the first success,
\* or raises after the third failure with no sleep after it, and only then;
\* and a call under way ends.
C8_Retry ==
    /\ []C8_Attempts
    /\ \A n \in 0..2 :
          (fetch.pc = "get" /\ Len(fetch.got) = n)
              ~> (fetch.pc # "get" \/ Len(fetch.got) > n)

\* C8's case: a call has raised after three attempts and two sleeps.
C8_Witness ==
    /\ fetch.pc = "done"
    /\ ~fetch.last.ok
    /\ fetch.last.tries = 3
    /\ fetch.last.sleeps = <<6, 12>>

\* C9: when the three statement requests succeeded, get_fmp_fundamentals
\* does not raise; it returns absent if a response is no list, if a list is
\* empty, or if an element lacks calendarYear.
C9_ShapesNeverRaise ==
    (fetch.pc = "done" /\ Len(fetch.got) = 3) =>
        /\ fetch.out.kind # "raise"
        /\ (\/ \E k \in 1..3 : fetch.got[k].kind # "list"
            \/ \E k \in 1..3 : fetch.got[k].items = <<>>
            \/ \E i \in DOMAIN fetch.got[1].items :
                  fetch.got[1].items[i].calendarYear = Missing)
               => fetch.out = Absent

\* C10: scorecard returns, for every series, the five results in the order
\* equity growth, debt/equity, profit growth, ROE consistency, FCF
\* positivity.
C10_FiveResults ==
    card.op = "scorecard" =>
        /\ card.results.kind = "ok"
        /\ [i \in 1..5 |-> card.results.checks[i].name] =
              << "Equity growing (5y)", "Debt-to-Equity < 50% (latest)",
                 "Profit growing (5y)", "ROE >= 15% (5y)", "FCF positive (5y)" >>

\* C11: de_latest of a series with rows: when the latest year's equity is
\* null or 0, or its debt is null, value is null and pass_flag is unknown;
\* otherwise value is debt / equity and pass_flag is (debt / equity < 1/2);
\* and with negative equity pass_flag is never determinate.
C11_DebtEquity ==
    (card.op = "scorecard" /\ card.results.kind = "ok") =>
        LET last == series[Len(series)]
            eq == last.shareholders_equity
            debt == last.total_debt
            de == card.results.checks[2]
        IN  /\ (eq = Null \/ eq = Num(0) \/ debt = Null) =>
                    (de.value = Null /\ de.pass_flag = "None")
            /\ (eq # Null /\ eq # Num(0) /\ debt # Null) =>
                    /\ de.value = <<debt[1], eq[1]>>
                    /\ eq[1] > 0 => de.pass_flag = Bool(2 * debt[1] < eq[1])
                    /\ eq[1] < 0 => de.pass_flag = "None"

\* The last min(5, n) rows of the series on the table (built in year order).
WindowOf(rows) ==
    SubSeq(rows, IF Len(rows) > 5 THEN Len(rows) - 4 ELSE 1, Len(rows))

\* What C12 asks of one growth rule's result for a column.
GrowthAsSpecified(res, col) ==
    LET w == WindowOf(series)
    IN  IF \/ Len(w) < 2
           \/ w[1][col] = Null \/ w[Len(w)][col] = Null
           \/ NonPositive(w[1][col]) \/ NonPositive(w[Len(w)][col])
        THEN res.value = Null /\ res.pass_flag = "None"
        ELSE res.pass_flag = Bool(Greater(w[Len(w)][col], w[1][col]))

\* C12: over the last min(5, n) rows, equity growth and profit growth are
\* unknown with a null value if the window has fewer than 2 rows or an
\* endpoint is null or <= 0, and otherwise pass exactly if the last endpoint
\* is greater than the first.
C12_GrowthRules ==
    card.op = "growth" =>
        /\ GrowthAsSpecified(card.equity, "shareholders_equity")
        /\ GrowthAsSpecified(card.profit, "net_income")

\* What holds of one growth rule's result for a column.
GrowthAsComputed(res, col) ==
    LET w == WindowOf(series)
        first == w[1][col]
        last == w[Len(w)][col]
    IN  IF \/ Len(w) < 2
           \/ first = Null \/ last = Null
           \/ NonPositive(first) \/ NonPositive(last)
        THEN res.value = Null /\ res.pass_flag = "None"
        ELSE /\ res.value = <<last, first, Len(w) - 1>>
             /\ res.pass_flag \in {"True", "False"}
             /\ res.pass_flag = "True" => Greater(last, first)
             /\ (Greater(last, first) /\ (~IsBig(last) \/ ~IsBig(first) \/ Len(w) = 2))
                    => res.pass_flag = "True"

\* C12 amended: the unknown cases are as stated; otherwise the value is the
\* growth rate between the window's endpoints, pass_flag is determinate, it
\* is true only if the last endpoint is greater than the first, and it is
\* true whenever the last is greater and the two are not both near 2^52 (or
\* the window has two rows).
C12_GrowthRulesFloat ==
    card.op = "growth" =>
        /\ GrowthAsComputed(card.equity, "shareholders_equity")
        /\ GrowthAsComputed(card.profit, "net_income")

\* C12's case: a series of six rows, so that the window drops the first, with
\* equity that grew over the window and passes and profit that shrank and
\* fails.
C12_Witness ==
    /\ card.op = "growth"
    /\ Len(series) = 6
    /\ series[1].shareholders_equity # series[2].shareholders_equity
    /\ card.equity.pass_flag = "True"
    /\ card.profit.pass_flag = "False"

\* C13: the ROE rule's value is, over the last <= 5 years, the number of
\* years with net_income / equity >= 15% over the number of years whose
\* equity is neither null nor zero (no other year is left out), a fraction in
\* [0, 1]; pass_flag is (value >= 80%); with no such year, value is null and
\* pass_flag unknown.
C13_RoeRatio ==
    card.op = "roe" =>
        LET w == WindowOf(series)
            den == SelectSeq(w, LAMBDA r : r.shareholders_equity # Null
                                           /\ r.shareholders_equity # Num(0))
            hit == SelectSeq(den, LAMBDA r :
                       /\ r.net_income # Null
                       /\ RatioGeq(r.net_income[1], r.shareholders_equity[1], 15, 100))
            res == card.result
        IN  IF den = <<>> THEN res.value = Null /\ res.pass_flag = "None"
            ELSE /\ res.value # Null
                 /\ 0 <= res.value[1] /\ res.value[1] <= res.value[2]
                 /\ res.value[1] * Len(den) = Len(hit) * res.value[2]
                 /\ res.pass_flag = Bool(5 * Len(hit) >= 4 * Len(den))

\* C14: over the last <= 5 years, if the window is not empty and every free
\* cash flow in it is > 0 the FCF rule passes with value 1; if any is <= 0 or
\* null it fails; for an empty window the value is 0 and the rule fails; the
\* flag is never unknown.
C14_FcfRule ==
    card.op = "fcf" =>
        LET w == WindowOf(series)
            positive(r) == r.free_cash_flow # Null /\ r.free_cash_flow[1] > 0
            res == card.result
        IN  /\ res.pass_flag \in {"True", "False"}
            /\ (w # <<>> /\ \A i \in DOMAIN w : positive(w[i])) =>
                    (res.pass_flag = "True" /\ res.value[1] = res.value[2])
            /\ (\E i \in DOMAIN w : ~positive(w[i])) => res.pass_flag = "False"
            /\ w = <<>> => (res.pass_flag = "False" /\ res.value[1] = 0)

\* C14's case: six years of which only the first, outside the window, had no
\* positive free cash flow, and the rule passes.
C14_Witness ==
    /\ card.op = "fcf"
    /\ Len(series) = 6
    /\ series[1].free_cash_flow = Num(0)
    /\ card.result.pass_flag = "True"

\* The aggregate of a list of results as C15 states it: the results that
\* pass over the results with a determinate flag, absent when there is none.
MeanOfDeterminate(results, score) ==
    LET det == { i \in DOMAIN results : results[i].pass_flag # "None" }
        pass == { i \in DOMAIN results : results[i].pass_flag = "True" }
    IN  IF det = {} THEN score = Null
        ELSE score = <<Cardinality(pass), Cardinality(det)>>

\* C15 as stated: aggregate_score is the mean of the determinate flags, and
\* the scorecard of a series in which no rule can be computed (every column
\* null) has no aggregate.
C15_AggregateAbsent ==
    /\ card.op = "aggregate" => MeanOfDeterminate(card.results, card.score)
    /\ (/\ card.op = "scorecard" /\ card.results.kind = "ok"
        /\ \A i \in DOMAIN series :
              /\ series[i].shareholders_equity = Null /\ series[i].total_debt = Null
              /\ series[i].net_income = Null /\ series[i].free_cash_flow = Null)
          => card.score = Null

\* C15 amended: aggregate_score is the mean of the determinate flags, absent
\* when there is none; the aggregate of a scorecard is that mean of its five
\* flags and is never absent, the FCF flag being always determinate: it is 0
\* when no rule passes.
C15_Aggregate ==
    /\ card.op = "aggregate" => MeanOfDeterminate(card.results, card.score)
    /\ (card.op = "scorecard" /\ card.results.kind = "ok") =>
          /\ MeanOfDeterminate(card.results.checks, card.score)
          /\ card.results.checks[5].pass_flag # "None"
          /\ card.score # Null
          /\ (\A i \in 1..5 : card.results.checks[i].pass_flag # "True")
                => card.score[1] = 0

\* C15's case: the flags true, false, unknown, true, true give 3/4.
C15_Witness ==
    /\ card.op = "aggregate"
    /\ [i \in DOMAIN card.results |-> card.results[i].pass_flag]
          = <<"True", "False", "None", "True", "True">>
    /\ card.score = <<3, 4>>

\* C16: the price-to-book entry is unknown when the price is absent or BVPS
\* is undefined (no equity, or shares null or zero); otherwise it passes
\* exactly if price <= 0.80 * equity / shares, and fails if not.
C16_PriceToBook ==
    card.op = "pb" =>
        LET undefined == \/ card.price.k # "num"
                         \/ card.equity.k # "num"
                         \/ card.shares.k # "num" \/ IsZero(card.shares)
        IN  IF undefined THEN card.badge \notin {"PASS", "FAIL"}
            ELSE card.badge =
                    (IF 5 * card.price.n * card.shares.n <= 4 * card.equity.n
                     THEN "PASS" ELSE "FAIL")

\* A process has written its last group and has not returned yet.
Written(p) == io[p].pc = "group" /\ io[p].keys = {} /\ "merged" \in DOMAIN io[p]

\* C17: no lock is taken: a process is never kept from reading by another
\* that has read and not yet written, nor from writing by another that is
\* between its read and the end of its write, and
\* when two processes have written the same file it holds what one of them
\* merged from its own read, whatever the other wrote; so the rows of one of
\* two batches can be lost.
C17_NoLock ==
    \A p \in Procs : \A q \in Procs \ {p} :
        /\ (io[p].pc = "merged" /\ io[q].pc = "group" /\ io[q].keys # {})
              => ENABLED ReadOld(q)
        /\ (io[p].pc \in {"merged", "writing"} /\ io[q].pc = "merged")
              => ENABLED OpenForWrite(q)
        /\ (Written(p) /\ Written(q) /\ io[p].path = io[q].path) =>
              files[io[p].path] \in {Table(io[p].merged), Table(io[q].merged)}

\* C17's case, the lost update: two processes have written batches of
\* different years for the same ticker, both have finished writing, and the
\* file lacks the row of one of them.
C17_LostUpdate ==
    /\ Written(1) /\ Written(2)
    /\ io[1].path = io[2].path
    /\ YearsOf(io[1].out) \cap YearsOf(io[2].out) = {}
    /\ \E p \in Procs : ~(SetOf(io[p].out) \subseteq SetOf(files[io[p].path].rows))

\* The rows the cache holds, over all its files.
Stored(fs) == UNION { SetOf(ReadOrEmpty(fs[p])) : p \in Paths }

\* C18: the cache is isolated per ticker: a load of t returns only rows whose
\* ticker is the upper-cased t, and an upsert leaves in the cache every row
\* it held of a ticker that is not a ticker (upper-cased) of the batch.
C18_Isolation ==
    /\ ret.op = "load" =>
            \A i \in DOMAIN ret.val : ret.val[i].ticker = Upper(ret.ticker)
    /\ ret.op = "upsert" =>
            \A r \in Stored(ret.before) :
                r.ticker \notin { Upper(ret.df[i].ticker) : i \in DOMAIN ret.df }
                    => r \in Stored(files)

=============================================================================
